---- MODULE Spec2Model ----
(***************************************************************************)
(* Prophet BYOM service (examples/prophet-byom/app.py): the /predict       *)
(* handler (validation, ProphetForecaster.train_and_predict, exception     *)
(* mapping), the /healthz handler and the module-level forecaster          *)
(* singleton, as a state machine.  Each handler thread owns its locals;    *)
(* the singleton's two attributes are shared by all of them.               *)
(*                                                                         *)
(* External libraries (Flask's get_json, pandas' to_datetime, Python's     *)
(* int()/float(), Prophet's fit/predict) are modelled by their outcomes:   *)
(* which exception class they raise, or the value they return, chosen      *)
(* nondeterministically where the input does not decide it.                *)
(***************************************************************************)
EXTENDS Integers, Sequences, FiniteSets, TLC

\* ----------------------------------------------------------------- bounds
\* largest horizonSeconds / stepSeconds a request carries (whole seconds)
MaxH == 3
\* longest `features` array a request carries
MaxFeatures == 2
\* number of /predict requests served in one run
MaxRequests == 2
\* number of handler threads (concurrent /predict requests)
NumHandlers == 2

Handlers == 1..NumHandlers

\* ------------------------------------------------------------ JSON values
\* A JSON value of horizonSeconds / stepSeconds, by what int() does with it:
\*   "missing"  the key is absent
\*   "num"      a number or numeric string; v is its value in half-units
\*              (v = 3 is 1.5), int() truncates toward zero
\*   "badstr"   int() raises ValueError   (a non-numeric string)
\*   "badtype"  int() raises TypeError    (null, a list, an object)
Missing == [t |-> "missing", v |-> 0]
BadStr  == [t |-> "badstr",  v |-> 0]
BadType == [t |-> "badtype", v |-> 0]
Num(v)  == [t |-> "num", v |-> v]

RawNums == {Num(v) : v \in (-1)..(2 * MaxH + 1)}
RawInts == {Missing, BadStr, BadType} \cup RawNums

\* A feature entry, by what lines 128-131 and 32-33 do with it:
\*   "ok"        object with ts and value, both convertible
\*   "noTs"      object with value only        "noValue"  object with ts only
\*   "neither"   object with neither key
\*   "badTs"     object with both, pd.to_datetime(ts) raises
\*   "badValue"  object with both, float(value) raises
\*   "str"       a string containing "ts" and "value" (`in` is a substring
\*               test and passes; f['ts'] raises TypeError)
\*   "num"       a number or null (`'ts' in f` raises TypeError)
Entry(k, ts, value) == [kind |-> k, ts |-> ts, value |-> value]
EntryKinds == {"ok", "noTs", "noValue", "neither", "badTs", "badValue", "str", "num"}

\* `features`: absent, a JSON array, null/0 (falsy, no len()), or a non-zero
\* number (truthy, len() raises TypeError)
NoFeatures       == [kind |-> "missing", items |-> << >>]
FeatureSeq(s)    == [kind |-> "seq",     items |-> s]
FeaturesNull     == [kind |-> "null",    items |-> << >>]
FeaturesNumber   == [kind |-> "number",  items |-> << >>]

\* The request body, by what request.get_json() hands to line 103:
\*   "absent"    no JSON body: get_json returns None or raises (Flask version)
\*   "falsy"     null, [], "", 0, false
\*   "emptyobj"  {}
\*   "array"     a non-empty array or string not holding the field names
\*   "number"    a non-zero number or true
\*   "obj"       a non-empty object (it carries "now" beside the three fields)
Body(k, h, s, f) == [kind |-> k, horizonSeconds |-> h, stepSeconds |-> s, features |-> f]
NoBody == Body("absent", Missing, Missing, NoFeatures)
NonObjectBodies == {Body(k, Missing, Missing, NoFeatures) :
                      k \in {"absent", "falsy", "emptyobj", "array", "number"}}

SeqsUpTo(S, n) == UNION {[1..k -> S] : k \in 0..n}

\* ------------------------------------------------------------- responses
NoField == ""
NoIndex == -1
Err(msg, index, field) == [msg |-> msg, index |-> index, field |-> field]
NoErr == Err("", NoIndex, NoField)

Response(status, error, values) ==
    [status |-> status, error |-> error, values |-> values,
     metric |-> IF status = 200 THEN "prophet_forecast" ELSE ""]
NoResponse == Response(0, NoErr, << >>)
Resp400(e) == Response(400, e, << >>)
Resp500    == Response(500, Err("internal server error", NoIndex, NoField), << >>)

\* exceptions: class and str(e)
Exc(cls, text) == [cls |-> cls, text |-> text]

\* every exception answered as an internal error
HandleExceptionAll500(e) == Resp500

\* lines 146-151: `except ValueError` answers 400 with str(e), any other
\* exception answers 500 with the fixed text
HandleException(e) ==
    IF e.cls = "ValueError"
    THEN Resp400(Err(e.text, NoIndex, NoField))
    ELSE Resp500

\* ------------------------------------------------------------ validation
\* int(x) of lines 111-112: truncation toward zero of a number, or the
\* exception int() raises
IntTrunc(v) == IF v >= 0 THEN v \div 2 ELSE -((-v) \div 2)
IntRaises(raw) == raw.t \in {"badstr", "badtype"}
IntException(raw) ==
    IF raw.t = "badstr"
    THEN Exc("ValueError", "invalid literal for int()")
    ELSE Exc("TypeError", "int() argument must be a string or a number")
IntValue(raw) == IntTrunc(raw.v)

\* line 103: `not data`
Falsy(d) == d.kind \in {"absent", "falsy", "emptyobj"}

\* line 101: request.get_json(); without a JSON body it returns None or
\* raises an HTTPException, which is an Exception (line 149)
GetJsonOutcomes(d) == IF d.kind = "absent" THEN {"none", "raise"} ELSE {"value"}

MissingField(name) == Resp400(Err("missing required field", NoIndex, name))

\* lines 106-109: the loop over required_fields with `field not in data`
CheckRequired(d) ==
    IF d.kind = "number"
    THEN HandleException(Exc("TypeError", "argument is not iterable"))
    ELSE IF d.kind = "array" \/ d.horizonSeconds.t = "missing"
    THEN MissingField("horizonSeconds")
    ELSE IF d.stepSeconds.t = "missing"
    THEN MissingField("stepSeconds")
    ELSE IF d.features.kind = "missing"
    THEN MissingField("features")
    ELSE NoResponse

\* lines 111-112: both conversions, horizonSeconds first
CheckCoercion(d) ==
    IF IntRaises(d.horizonSeconds)
    THEN HandleException(IntException(d.horizonSeconds))
    ELSE IF IntRaises(d.stepSeconds)
    THEN HandleException(IntException(d.stepSeconds))
    ELSE NoResponse

\* the step checked before the horizon
CheckRangesStepFirst(horizon_seconds, step_seconds) ==
    IF step_seconds <= 0
    THEN Resp400(Err("stepSeconds must be > 0", NoIndex, NoField))
    ELSE IF horizon_seconds <= 0
    THEN Resp400(Err("horizonSeconds must be > 0", NoIndex, NoField))
    ELSE IF step_seconds > horizon_seconds
    THEN Resp400(Err("stepSeconds cannot exceed horizonSeconds", NoIndex, NoField))
    ELSE NoResponse

\* lines 115-122
CheckRanges(horizon_seconds, step_seconds) ==
    IF horizon_seconds <= 0
    THEN Resp400(Err("horizonSeconds must be > 0", NoIndex, NoField))
    ELSE IF step_seconds <= 0
    THEN Resp400(Err("stepSeconds must be > 0", NoIndex, NoField))
    ELSE IF step_seconds > horizon_seconds
    THEN Resp400(Err("stepSeconds cannot exceed horizonSeconds", NoIndex, NoField))
    ELSE NoResponse

\* lines 128-131 for one entry; i is the 0-based index of enumerate()
CheckEntry(i, f) ==
    IF f.kind = "num"
    THEN HandleException(Exc("TypeError", "argument is not iterable"))
    ELSE IF f.kind \in {"noTs", "neither"}
    THEN Resp400(Err("feature missing required field", i, "ts"))
    ELSE IF f.kind = "noValue"
    THEN Resp400(Err("feature missing required field", i, "value"))
    ELSE NoResponse

\* lines 124-131: the size check, then the loop, which stops at the first
\* entry that returns or raises
CheckFeatures(features) ==
    IF features.kind = "null"
    THEN Resp400(Err("features must contain at least 2 points for Prophet", NoIndex, NoField))
    ELSE IF features.kind = "number"
    THEN HandleException(Exc("TypeError", "object has no len()"))
    ELSE IF Len(features.items) < 2
    THEN Resp400(Err("features must contain at least 2 points for Prophet", NoIndex, NoField))
    ELSE LET items == features.items
             stops == {i \in 1..Len(items) : CheckEntry(i - 1, items[i]) # NoResponse}
         IN  IF stops = {}
             THEN NoResponse
             ELSE LET first == CHOOSE i \in stops : \A j \in stops : i <= j
                  IN  CheckEntry(first - 1, items[first])

\* lines 101-131 of predict(): the response of the first check that returns
\* or raises, NoResponse when the request reaches line 133
Validate(d, json) ==
    IF json = "raise"
    THEN HandleException(Exc("HTTPException", "bad request"))
    ELSE IF json = "none" \/ Falsy(d)
    THEN Resp400(Err("request body is required", NoIndex, NoField))
    ELSE IF CheckRequired(d) # NoResponse
    THEN CheckRequired(d)
    ELSE IF CheckCoercion(d) # NoResponse
    THEN CheckCoercion(d)
    ELSE IF CheckRanges(IntValue(d.horizonSeconds), IntValue(d.stepSeconds)) # NoResponse
    THEN CheckRanges(IntValue(d.horizonSeconds), IntValue(d.stepSeconds))
    ELSE CheckFeatures(d.features)

\* ------------------------------------------------------- train_and_predict
Row(ds, y) == [ds |-> ds, y |-> y]

\* lines 32-33 for one entry: the classes of exception that building its row
\* can raise ({} when the row is built).  f['ts'] on a string or a number is
\* a TypeError, on an object without the key a KeyError; what pd.to_datetime
\* and float() raise depends on the offending value (a malformed string is a
\* ValueError, a null or a list a TypeError)
RowExceptions(f) ==
    CASE f.kind \in {"str", "num"}     -> {"TypeError"}
      [] f.kind \in {"noTs", "neither"} -> {"KeyError"}
      [] f.kind \in {"badTs", "badValue"} -> {"ValueError", "TypeError"}
      [] OTHER -> {}

RowExceptionText(f) ==
    CASE f.kind = "badTs"    -> "Unknown datetime string format"
      [] f.kind = "badValue" -> "could not convert string to float"
      [] OTHER               -> "row cannot be built"

\* line 33: f.get('value', 0) defaults an absent value to 0
RowOf(f) == Row(f.ts, IF f.kind = "noValue" THEN 0 ELSE f.value)

\* line 38: sort_values('ds'); rows with equal ds keep their order (arrays
\* this short are sorted by insertion)
RECURSIVE InsertByDs(_, _)
InsertByDs(row, sorted) ==
    IF sorted = << >> THEN << row >>
    ELSE IF row.ds < Head(sorted).ds THEN << row >> \o sorted
    ELSE << Head(sorted) >> \o InsertByDs(row, Tail(sorted))

RECURSIVE SortByDs(_)
SortByDs(rows) ==
    IF rows = << >> THEN << >>
    ELSE InsertByDs(rows[Len(rows)], SortByDs(SubSeq(rows, 1, Len(rows) - 1)))

\* lines 30-38: the DataFrame of a feature list whose rows can all be built
DataFrame(items) == SortByDs([i \in 1..Len(items) |-> RowOf(items[i])])

\* a Prophet object: unfitted, or fitted on a DataFrame (lines 42-50)
NoModel == [fitted |-> FALSE, history |-> << >>]
FittedModel(df) == [fitted |-> TRUE, history |-> df]

\* the number of periods rounded up instead of down
NumPeriodsCeil(horizon_seconds, step_seconds) ==
    (horizon_seconds + step_seconds - 1) \div step_seconds

\* line 54
NumPeriods(horizon_seconds, step_seconds) == horizon_seconds \div step_seconds

\* lines 55-59: make_future_dataframe(periods, freq, include_history=False):
\* `periods` timestamps spaced step_seconds after the last one of the history
MakeFutureDataframe(m, periods, step_seconds) ==
    LET last == m.history[Len(m.history)].ds
    IN  [k \in 1..periods |-> last + k * step_seconds]

\* the forecast passed through unclamped
ClampMissing(x) == x

\* line 62: max(0, x)
Clamp(x) == IF x > 0 THEN x ELSE 0

\* line 66: predictions[:num_periods]
Take(s, n) == SubSeq(s, 1, IF n < Len(s) THEN n ELSE Len(s))

\* the point forecasts Prophet may return for one timestamp
YhatVals == {-1, 0, 1}

\* line 77: last_trained.isoformat() if last_trained else None
JsonNull == [null |-> TRUE, iso |-> 0]
IsoFormat(ts) == [null |-> FALSE, iso |-> ts]
None == 0

\* ------------------------------------------------------------------ state
VARIABLES
    forecaster_model,         \* forecaster.model (line 23)
    forecaster_last_trained,  \* forecaster.last_trained (line 24), None or a time
    clock,                    \* datetime.now()
    pc,                       \* per handler: where predict() stands
    data,                     \* per handler: the request body
    horizon_seconds,          \* per handler: local of predict()
    step_seconds,             \* per handler: local of predict()
    features,                 \* per handler: local of predict()
    df,                       \* per handler: local of train_and_predict()
    model,                    \* per handler: local of train_and_predict()
    forecast,                 \* per handler: receiver and argument of line 61
    invoked,                  \* per handler: line 135 has called train_and_predict
    raised,                   \* per handler: the exception train_and_predict raised
    resp,                     \* per handler: the response of predict()
    health,                   \* the last /healthz response
    received,                 \* number of /predict requests received
    fit_completed,            \* history: some model.fit (line 50) has returned
    answered_200              \* history: some /predict response was a 200

shared == << forecaster_model, forecaster_last_trained >>
locals == << data, horizon_seconds, step_seconds, features, df, model, forecast,
            invoked, raised >>
vars == << forecaster_model, forecaster_last_trained, clock, pc, data,
           horizon_seconds, step_seconds, features, df, model, forecast,
           invoked, raised, resp, health, received, fit_completed, answered_200 >>

NoForecast == [model |-> NoModel, future |-> << >>, yhat |-> << >>]
NoExc == Exc("", "")
NoHealth == [status |-> 0, last_trained |-> JsonNull]

\* lines 21-24 and 69: the singleton after construction; no request yet
Init ==
    /\ forecaster_model = NoModel
    /\ forecaster_last_trained = None
    /\ clock = 0
    /\ pc = [r \in Handlers |-> "idle"]
    /\ data = [r \in Handlers |-> NoBody]
    /\ horizon_seconds = [r \in Handlers |-> 0]
    /\ step_seconds = [r \in Handlers |-> 0]
    /\ features = [r \in Handlers |-> << >>]
    /\ df = [r \in Handlers |-> << >>]
    /\ model = [r \in Handlers |-> NoModel]
    /\ forecast = [r \in Handlers |-> NoForecast]
    /\ invoked = [r \in Handlers |-> FALSE]
    /\ raised = [r \in Handlers |-> NoExc]
    /\ resp = [r \in Handlers |-> NoResponse]
    /\ health = NoHealth
    /\ received = 0
    /\ fit_completed = FALSE
    /\ answered_200 = FALSE

\* predict() returns `response` from where it stands (a return statement or
\* an except clause)
Return(r, response) ==
    /\ resp' = [resp EXCEPT ![r] = response]
    /\ pc' = [pc EXCEPT ![r] = "done"]

\* train_and_predict raises e, which predict() catches at lines 146-151
Raise(r, e) ==
    /\ raised' = [raised EXCEPT ![r] = e]
    /\ Return(r, HandleException(e))

\* a POST /predict with body `body` arrives at handler r
Receive(r, bodies) ==
    /\ pc[r] = "idle"
    /\ received < MaxRequests
    /\ \E body \in bodies : data' = [data EXCEPT ![r] = body]
    /\ received' = received + 1
    /\ pc' = [pc EXCEPT ![r] = "validate"]
    /\ UNCHANGED << shared, clock, horizon_seconds, step_seconds, features, df,
                    model, forecast, invoked, raised, resp, health, fit_completed,
                    answered_200 >>

\* lines 101-113 have run without returning or raising: the three locals
\* of predict() are assigned
ReachesLine113(d, json) ==
    /\ json = "value"
    /\ ~Falsy(d)
    /\ CheckRequired(d) = NoResponse
    /\ CheckCoercion(d) = NoResponse

\* lines 100-133: get_json and the checks; a request that passes them all
\* goes on to call train_and_predict (line 135)
PredictValidate(r) ==
    /\ pc[r] = "validate"
    /\ \E json \in GetJsonOutcomes(data[r]) :
         LET response == Validate(data[r], json)
         IN  /\ IF ReachesLine113(data[r], json)
                THEN /\ horizon_seconds' = [horizon_seconds EXCEPT
                                              ![r] = IntValue(data[r].horizonSeconds)]
                     /\ step_seconds' = [step_seconds EXCEPT
                                           ![r] = IntValue(data[r].stepSeconds)]
                     /\ features' = [features EXCEPT ![r] = data[r].features.items]
                ELSE UNCHANGED << horizon_seconds, step_seconds, features >>
             /\ IF response # NoResponse
                THEN /\ Return(r, response)
                     /\ UNCHANGED invoked
                ELSE /\ invoked' = [invoked EXCEPT ![r] = TRUE]
                     /\ pc' = [pc EXCEPT ![r] = "build"]
                     /\ UNCHANGED resp
    /\ UNCHANGED << shared, clock, data, df, model, forecast, raised, health,
                    received, fit_completed, answered_200 >>

\* lines 27-38: the empty check, the rows in order (the first row that cannot
\* be built raises), the sort
BuildSeries(r) ==
    /\ pc[r] = "build"
    /\ LET items == features[r]
           bad == {i \in 1..Len(items) : RowExceptions(items[i]) # {}}
       IN  IF items = << >>
           THEN /\ Raise(r, Exc("ValueError", "features cannot be empty"))
                /\ UNCHANGED df
           ELSE IF bad # {}
           THEN LET first == CHOOSE i \in bad : \A j \in bad : i <= j
                IN  /\ \E cls \in RowExceptions(items[first]) :
                         Raise(r, Exc(cls, RowExceptionText(items[first])))
                    /\ UNCHANGED df
           ELSE /\ df' = [df EXCEPT ![r] = DataFrame(items)]
                /\ pc' = [pc EXCEPT ![r] = "fit"]
                /\ UNCHANGED << resp, raised >>
    /\ UNCHANGED << shared, clock, data, horizon_seconds, step_seconds, features,
                    model, forecast, invoked, health, received, fit_completed,
                    answered_200 >>

\* lines 42-50: a new Prophet object is fitted on df; fit returns or raises
Fit(r) ==
    /\ pc[r] = "fit"
    /\ \/ /\ model' = [model EXCEPT ![r] = FittedModel(df[r])]
          /\ fit_completed' = TRUE
          /\ pc' = [pc EXCEPT ![r] = "store_model"]
          /\ UNCHANGED << resp, raised >>
       \/ /\ \E cls \in {"ValueError", "RuntimeError"} :
               Raise(r, Exc(cls, "fit failed"))
          /\ UNCHANGED << model, fit_completed >>
    /\ UNCHANGED << shared, clock, data, horizon_seconds, step_seconds, features,
                    df, forecast, invoked, health, received, answered_200 >>

\* the fitted model kept in the local only
StoreModelSkipped(r) ==
    /\ pc[r] = "store_model"
    /\ pc' = [pc EXCEPT ![r] = "store_trained"]
    /\ UNCHANGED << shared, clock, locals, resp, health, received, fit_completed,
                    answered_200 >>

\* line 51: self.model = model
StoreModel(r) ==
    /\ pc[r] = "store_model"
    /\ forecaster_model' = model[r]
    /\ pc' = [pc EXCEPT ![r] = "store_trained"]
    /\ UNCHANGED << forecaster_last_trained, clock, locals, resp, health,
                    received, fit_completed, answered_200 >>

\* the time of the fit not recorded
StoreTrainedSkipped(r) ==
    /\ pc[r] = "store_trained"
    /\ pc' = [pc EXCEPT ![r] = "forecast"]
    /\ UNCHANGED << shared, clock, locals, resp, health, received, fit_completed,
                    answered_200 >>

\* line 52: self.last_trained = datetime.now()
StoreTrained(r) ==
    /\ pc[r] = "store_trained"
    /\ clock' = clock + 1
    /\ forecaster_last_trained' = clock'
    /\ pc' = [pc EXCEPT ![r] = "forecast"]
    /\ UNCHANGED << forecaster_model, locals, resp, health, received,
                    fit_completed, answered_200 >>

\* predict() called on the singleton's attribute instead of the local
PredictingModelShared(r) == forecaster_model

\* line 61: the object whose predict() is called, the local `model`
PredictingModel(r) == model[r]

\* lines 54-66 and 137-144: the future frame, predict (returns one forecast
\* per future timestamp, or raises), the clamp, the slice, the 200 response
Forecast(r) ==
    /\ pc[r] = "forecast"
    /\ LET num_periods == NumPeriods(horizon_seconds[r], step_seconds[r])
           m == PredictingModel(r)
           future_df == MakeFutureDataframe(m, num_periods, step_seconds[r])
       IN  \/ /\ \E yhat \in [1..Len(future_df) -> YhatVals] :
                   LET predictions == [i \in 1..Len(yhat) |-> Clamp(yhat[i])]
                   IN  /\ Return(r, Response(200, NoErr, Take(predictions, num_periods)))
                       /\ forecast' = [forecast EXCEPT ![r] =
                              [model |-> m, future |-> future_df, yhat |-> yhat]]
              /\ UNCHANGED raised
           \/ /\ \E cls \in {"ValueError", "RuntimeError"} :
                   Raise(r, Exc(cls, "predict failed"))
              /\ UNCHANGED forecast
    /\ UNCHANGED << shared, clock, data, horizon_seconds, step_seconds, features,
                    df, model, invoked, health, received, fit_completed,
                    answered_200 >>

\* the response leaves the handler; its locals die with the call
Respond(r) ==
    /\ pc[r] = "done"
    /\ answered_200' = (answered_200 \/ resp[r].status = 200)
    /\ pc' = [pc EXCEPT ![r] = "idle"]
    /\ data' = [data EXCEPT ![r] = NoBody]
    /\ horizon_seconds' = [horizon_seconds EXCEPT ![r] = 0]
    /\ step_seconds' = [step_seconds EXCEPT ![r] = 0]
    /\ features' = [features EXCEPT ![r] = << >>]
    /\ df' = [df EXCEPT ![r] = << >>]
    /\ model' = [model EXCEPT ![r] = NoModel]
    /\ forecast' = [forecast EXCEPT ![r] = NoForecast]
    /\ invoked' = [invoked EXCEPT ![r] = FALSE]
    /\ raised' = [raised EXCEPT ![r] = NoExc]
    /\ resp' = [resp EXCEPT ![r] = NoResponse]
    /\ UNCHANGED << shared, clock, health, received, fit_completed >>

\* lines 72-78: GET /healthz
Healthz ==
    /\ health' = [status |-> 200,
                  last_trained |-> IF forecaster_last_trained # None
                                   THEN IsoFormat(forecaster_last_trained)
                                   ELSE JsonNull]
    /\ UNCHANGED << shared, clock, pc, locals, resp, received, fit_completed,
                    answered_200 >>

\* ---------------------------------------------------------- request bodies
\* every shape of body, with one convertible (ts, value) pair
AnyEntries == {Entry(k, 1, 1) : k \in EntryKinds}
AnyFeatures == {NoFeatures, FeaturesNull, FeaturesNumber}
                 \cup {FeatureSeq(s) : s \in SeqsUpTo(AnyEntries, MaxFeatures)}
Bodies == NonObjectBodies
            \cup {Body("obj", h, s, f) : h \in RawInts, s \in RawInts, f \in AnyFeatures}

\* bodies for concurrent requests: well-formed apart from one malformed
\* timestamp, with histories and horizons that tell the requests apart
ConcFeatures == {FeatureSeq(<< Entry("ok", 2, 1), Entry("ok", 1, 0) >>),
                 FeatureSeq(<< Entry("ok", 1, 1), Entry("ok", 3, 1) >>),
                 FeatureSeq(<< Entry("ok", 1, 1), Entry("badTs", 0, 1) >>)}
ConcBodies == {Body("emptyobj", Missing, Missing, NoFeatures)}
                \cup {Body("obj", Num(2 * h), Num(2 * s), f) :
                        h \in {MaxH}, s \in {MaxH - 1, MaxH}, f \in ConcFeatures}

\* --------------------------------------------------------- specifications
Step(r, bodies) ==
    \/ Receive(r, bodies)
    \/ PredictValidate(r)
    \/ BuildSeries(r)
    \/ Fit(r)
    \/ StoreModel(r)
    \/ StoreTrained(r)
    \/ Forecast(r)
    \/ Respond(r)

\* one handler thread serving /predict, every shape of request
Next == \E r \in {1} : Step(r, Bodies)
Spec == Init /\ [][Next]_vars

\* NumHandlers handler threads interleaved line by line, and /healthz
NextConc == (\E r \in Handlers : Step(r, ConcBodies)) \/ Healthz
SpecConc == Init /\ [][NextConc]_vars

\* ----------------------------------------------------------------- claims
Answered(r, status) == pc[r] = "done" /\ resp[r].status = status

\* C1: a 200 response carries exactly floor(horizonSeconds / stepSeconds)
\* values, on the integer-coerced fields of the request: the length n is
\* the one number with n * step <= horizon < (n + 1) * step.
C1_LengthIsFloor ==
    \A r \in Handlers :
        Answered(r, 200) =>
            LET h == IntValue(data[r].horizonSeconds)
                s == IntValue(data[r].stepSeconds)
                n == Len(resp[r].values)
            IN  n * s <= h /\ h < (n + 1) * s

\* a 200 for horizonSeconds 3.5 and stepSeconds 2.5 (coerced to 3 and 2,
\* which do not divide evenly) carries one value
C1_Witness ==
    \E r \in Handlers :
        /\ Answered(r, 200)
        /\ data[r].horizonSeconds = Num(7)
        /\ data[r].stepSeconds = Num(5)
        /\ Len(resp[r].values) = 1

\* C2: every value of a 200 response is max(0, forecast), so it is >= 0
\* whatever the model predicted.
C2_ValuesNonNegative ==
    \A r \in Handlers :
        Answered(r, 200) =>
            \A i \in 1..Len(resp[r].values) :
                /\ resp[r].values[i] >= 0
                /\ resp[r].values[i] >= forecast[r].yhat[i]
                /\ resp[r].values[i] \in {0, forecast[r].yhat[i]}

\* a 200 whose model predicted a negative value, returned as 0
C2_Witness ==
    \E r \in Handlers :
        /\ Answered(r, 200)
        /\ \E i \in 1..Len(resp[r].values) :
             forecast[r].yhat[i] < 0 /\ resp[r].values[i] = 0

\* ------------------------------------------------- the order of the checks
Check(fails, response) == [fails |-> fails, resp |-> response]
Failing(checks) == {k \in 1..Len(checks) : checks[k].fails}
FirstFailing(checks) == CHOOSE k \in Failing(checks) : \A j \in Failing(checks) : k <= j

IsNum(raw) == raw.t = "num"
InvalidHorizon == Resp400(Err("horizonSeconds must be > 0", NoIndex, NoField))
InvalidStep == Resp400(Err("stepSeconds must be > 0", NoIndex, NoField))
StepExceedsHorizon == Resp400(Err("stepSeconds cannot exceed horizonSeconds", NoIndex, NoField))
InsufficientFeatures ==
    Resp400(Err("features must contain at least 2 points for Prophet", NoIndex, NoField))
MissingFeatureField(i, name) == Resp400(Err("feature missing required field", i, name))
IntError == Resp400(Err("invalid literal for int()", NoIndex, NoField))

\* an entry is a JSON object holding the key
HasTs(f) == f.kind \in {"ok", "noValue", "badTs", "badValue"}
HasValue(f) == f.kind \in {"ok", "noTs", "badTs", "badValue"}

TopChecks(d) ==
    << Check(d.horizonSeconds.t = "missing", MissingField("horizonSeconds")),
       Check(d.stepSeconds.t = "missing", MissingField("stepSeconds")),
       Check(d.features.kind = "missing", MissingField("features")) >>

RangeChecks(d) ==
    LET h == d.horizonSeconds
        s == d.stepSeconds
    IN  << Check(IsNum(h) /\ IntValue(h) <= 0, InvalidHorizon),
           Check(IsNum(s) /\ IntValue(s) <= 0, InvalidStep),
           Check(IsNum(h) /\ IsNum(s) /\ IntValue(s) > IntValue(h), StepExceedsHorizon) >>

\* the checks in the order the claim lists them: an entry lacks a field when
\* it is not an object holding it
ClaimedChecks(d) ==
    LET items == d.features.items
    IN  TopChecks(d) \o RangeChecks(d)
          \o << Check(d.features.kind # "seq" \/ Len(items) < 2, InsufficientFeatures) >>
          \o [k \in 1..(2 * Len(items)) |->
                LET i == (k + 1) \div 2
                IN  IF k % 2 = 1
                    THEN Check(~HasTs(items[i]), MissingFeatureField(i - 1, "ts"))
                    ELSE Check(~HasValue(items[i]), MissingFeatureField(i - 1, "value"))]

\* the checks in the order the code makes them: both int() conversions come
\* before the range checks, and a check that raises (int(), len(), `in`)
\* reports the exception instead of its own message
CodeChecks(d) ==
    LET items == d.features.items
    IN  TopChecks(d)
          \o << Check(d.horizonSeconds.t = "badstr", IntError),
                Check(d.horizonSeconds.t = "badtype", Resp500),
                Check(d.stepSeconds.t = "badstr", IntError),
                Check(d.stepSeconds.t = "badtype", Resp500) >>
          \o RangeChecks(d)
          \o << Check(d.features.kind = "number", Resp500),
                Check(d.features.kind # "seq" \/ Len(items) < 2, InsufficientFeatures) >>
          \o [k \in 1..(2 * Len(items)) |->
                LET i == (k + 1) \div 2
                    f == items[i]
                IN  IF k % 2 = 1
                    THEN IF f.kind = "num"
                         THEN Check(TRUE, Resp500)
                         ELSE Check(f.kind \in {"noTs", "neither"},
                                    MissingFeatureField(i - 1, "ts"))
                    ELSE Check(f.kind = "noValue", MissingFeatureField(i - 1, "value"))]

Validated(r) == pc[r] \notin {"idle", "validate"}
RejectedWith(r, response) == pc[r] = "done" /\ ~invoked[r] /\ resp[r] = response

\* C3 as claimed: for a non-empty JSON object the reported error is that of
\* the first failing check in the order missing horizonSeconds, missing
\* stepSeconds, missing features, horizonSeconds <= 0, stepSeconds <= 0,
\* stepSeconds > horizonSeconds, fewer than 2 features, then per entry ts
\* before value.
C3_ClaimedOrder ==
    \A r \in Handlers :
        (Validated(r) /\ data[r].kind = "obj" /\ Failing(ClaimedChecks(data[r])) # {}) =>
            LET checks == ClaimedChecks(data[r])
            IN  RejectedWith(r, checks[FirstFailing(checks)].resp)

\* C3 as amended: the same order with the int() conversion of horizonSeconds
\* and then of stepSeconds between the presence checks and the range checks;
\* a check that raises reports its exception (400 with the text of a
\* ValueError, 500 otherwise); a request failing no check reaches
\* train_and_predict.
C3_CodeOrder ==
    \A r \in Handlers :
        (Validated(r) /\ data[r].kind = "obj") =>
            LET checks == CodeChecks(data[r])
            IN  IF Failing(checks) = {}
                THEN invoked[r]
                ELSE RejectedWith(r, checks[FirstFailing(checks)].resp)

\* horizonSeconds 0 with a stepSeconds that is no number: the conversion
\* error is reported, not "horizonSeconds must be > 0"
C3_Witness ==
    \E r \in Handlers :
        /\ data[r].kind = "obj"
        /\ IsNum(data[r].horizonSeconds) /\ IntValue(data[r].horizonSeconds) = 0
        /\ data[r].stepSeconds = BadStr
        /\ Len(data[r].features.items) = 2
        /\ data[r].features.items[1].kind = "neither"
        /\ RejectedWith(r, IntError)

\* ------------------------------------------------------------ validation
\* the rules of the Request Validator: a JSON object with the three fields,
\* horizonSeconds and stepSeconds integers with 0 < step <= horizon, at least
\* 2 features, each an object with ts and value
SatisfiesValidator(d) ==
    /\ d.kind = "obj"
    /\ IsNum(d.horizonSeconds) /\ IsNum(d.stepSeconds)
    /\ IntValue(d.horizonSeconds) > 0
    /\ IntValue(d.stepSeconds) > 0
    /\ IntValue(d.stepSeconds) <= IntValue(d.horizonSeconds)
    /\ d.features.kind = "seq"
    /\ Len(d.features.items) >= 2
    /\ \A i \in 1..Len(d.features.items) :
         HasTs(d.features.items[i]) /\ HasValue(d.features.items[i])

\* C4 as claimed: a request failing any rule of the validator is answered
\* 400 with an error message, never 500.
C4_ValidationFailureIs400 ==
    \A r \in Handlers :
        (pc[r] = "done" /\ ~SatisfiesValidator(data[r])) =>
            (resp[r].status = 400 /\ resp[r].error # NoErr)

\* C6 as claimed: train_and_predict is invoked only for a request that
\* satisfies every rule of the validator, and a rejected request has fitted
\* nothing.
C6_ValidationGatesOrchestrator ==
    \A r \in Handlers :
        /\ invoked[r] => SatisfiesValidator(data[r])
        /\ (pc[r] = "done" /\ ~invoked[r]) => (model[r] = NoModel /\ df[r] = << >>)

\* C7 as claimed: every failure raised by train_and_predict is answered 500
\* with the fixed text.
C7_OrchestrationFailureIs500 ==
    \A r \in Handlers :
        (pc[r] = "done" /\ raised[r] # NoExc) => resp[r] = Resp500

\* C7 as amended: a failure raised by train_and_predict is answered 500 with
\* the fixed text unless it is a ValueError, which is answered 400 with the
\* text of the exception.
C7_OrchestrationFailure ==
    \A r \in Handlers :
        (pc[r] = "done" /\ raised[r] # NoExc) =>
            /\ invoked[r]
            /\ IF raised[r].cls = "ValueError"
               THEN resp[r] = Resp400(Err(raised[r].text, NoIndex, NoField))
               ELSE resp[r] = Resp500 /\ resp[r].error.msg # raised[r].text

\* a malformed timestamp raised as a ValueError is answered 400 with the
\* parser's message
C7_Witness ==
    \E r \in Handlers :
        /\ pc[r] = "done"
        /\ raised[r] = Exc("ValueError", "Unknown datetime string format")
        /\ resp[r].status = 400
        /\ resp[r].error.msg = "Unknown datetime string format"

\* C8 as claimed: an absent or falsy body and a non-object JSON value are
\* answered 400 "request body is required"; a JSON object, {} included, is
\* not, and {} is reported as missing horizonSeconds.
BodyRequired == Resp400(Err("request body is required", NoIndex, NoField))
C8_BodyCheckAcceptsObjects ==
    \A r \in Handlers :
        pc[r] = "done" =>
            /\ data[r].kind \in {"absent", "falsy", "array", "number"} => resp[r] = BodyRequired
            /\ data[r].kind \in {"emptyobj", "obj"} => resp[r] # BodyRequired
            /\ data[r].kind = "emptyobj" => resp[r] = MissingField("horizonSeconds")

\* ------------------------------------------------------ process-wide state
Quiet == \A r \in Handlers : pc[r] = "idle"

\* C5 as claimed: with no request in flight, /healthz returns last_trained
\* null exactly as long as no /predict request has been answered 200.
C5_NullUntilFirst200 ==
    [][(Healthz /\ Quiet) => (health'.last_trained.null <=> ~answered_200)]_vars

\* C5 as amended: /healthz returns last_trained null as long as no request's
\* fit has returned (so after requests that failed in validation, in building
\* the series or in the fit), and a timestamp once a request has recorded its
\* fit at line 52: after every 200, and also after a request whose
\* prediction then failed.
C5_NullUntilFirstFit ==
    [][Healthz =>
          /\ ~fit_completed => health'.last_trained = JsonNull
          /\ answered_200 => ~health'.last_trained.null
          /\ (\E r \in Handlers : pc[r] \in {"forecast", "done"} /\ model[r].fitted)
                => ~health'.last_trained.null
          /\ ~health'.last_trained.null =>
                health'.last_trained = IsoFormat(forecaster_last_trained)]_vars

\* /healthz reports a timestamp although the only request so far failed in
\* predict and was answered 500
C5_Witness ==
    /\ health.status = 200
    /\ ~health.last_trained.null
    /\ ~answered_200
    /\ \E r \in Handlers : pc[r] = "done" /\ resp[r] = Resp500 /\ model[r].fitted

C10_OwnModelPredicts ==
    \A r \in Handlers :
        Answered(r, 200) =>
            LET history == DataFrame(data[r].features.items)
                h == IntValue(data[r].horizonSeconds)
                s == IntValue(data[r].stepSeconds)
            IN  /\ forecast[r].model = FittedModel(history)
                /\ Len(forecast[r].future) = h \div s
                /\ \A k \in 1..Len(forecast[r].future) :
                     forecast[r].future[k] = history[Len(history)].ds + k * s
                /\ Len(resp[r].values) = Len(forecast[r].future)

\* a 200 predicted by the request's own model while the singleton holds the
\* model another request fitted on a different history
C10_Witness ==
    \E r, q \in Handlers :
        /\ r # q
        /\ Answered(r, 200)
        /\ pc[q] \in {"store_trained", "forecast", "done"}
        /\ forecaster_model = model[q]
        /\ model[q] # model[r]

====
